---- MODULE Spec2Model ----
(***************************************************************************)
(* Model of the we-cdk code generator (crates/codegen/src/generator.rs):   *)
(* the `interface` macro body, which turns a trait declaration into a      *)
(* module of call-forwarding functions, and the `action` macro body, which *)
(* wraps a function definition into an exported entry point.               *)
(*                                                                         *)
(* Syntax trees are records.  An identifier is a string; a string literal  *)
(* is the record [kind |-> "str", text |-> s].                             *)
(***************************************************************************)
EXTENDS Integers, Sequences, FiniteSets, TLC

VARIABLES
    input,      \* the token stream handed to the macro, as its syntax tree
    macro,      \* which generator was invoked: "none", "interface", "action"
    output,     \* the generator's Result: none yet, err, or the generated tree
    run,        \* the outcome of executing the generated entry point
    saved,      \* an earlier invocation (input, macro, output) kept for comparison
    pc,         \* position of the stepwise interface() loop
    i,          \* number of trait items consumed by the outer loop (line 10)
    j,          \* number of parameters consumed by the inner loop (line 17)
    args,       \* generator.rs:15
    call_args,  \* generator.rs:16
    mod_func    \* generator.rs:5

vars == <<input, macro, output, run, saved, pc, i, j, args, call_args, mod_func>>

-----------------------------------------------------------------------------
(* Bounds of the explored inputs.                                           *)

MaxParams == 2
MaxItems == 3
MaxStmts == 2
MaxSeqItems == 2

ArgNames == {"a", "b"}
MethodNames == {"f", "g"}
TraitNames == {"T", "U"}
RetVals == {0, 7}

RECURSIVE SeqsUpTo(_, _)
SeqsUpTo(S, n) ==
    IF n = 0 THEN {<<>>}
    ELSE LET shorter == SeqsUpTo(S, n - 1)
         IN  shorter \cup {Append(s, x) : s \in {t \in shorter : Len(t) = n - 1}, x \in S}

-----------------------------------------------------------------------------
(* Source syntax trees (what syn hands to the generator).                   *)

PatIdent(n) == [kind |-> "Ident", ident |-> n]
PatWild == [kind |-> "Wild"]
TypePath(segs) == [kind |-> "Path", segments |-> segs]
TypeReference == [kind |-> "Reference"]
Receiver == [kind |-> "Receiver"]
Typed(p, t) == [kind |-> "Typed", pat |-> p, ty |-> t]

\* The five type names the match at generator.rs:25 recognises.
KindNames == {"Integer", "Boolean", "Binary", "String", "Payment"}

\* Parameters a method signature is built from: every recognised kind and an
\* unrecognised type name under both names, qualified paths whose first
\* segment is or is not a recognised name, a non-path type, a non-identifier
\* pattern and a receiver.
Params ==
    {Typed(PatIdent(n), TypePath(<<k>>)) : n \in ArgNames, k \in KindNames \cup {"Address"}}
    \cup {Typed(PatIdent("a"), TypePath(<<"Integer", "Extra">>)),
          Typed(PatIdent("b"), TypePath(<<"std", "String">>)),
          Typed(PatIdent("a"), TypeReference),
          Typed(PatWild, TypePath(<<"Integer">>)),
          Receiver}

TraitMethod(n, ins) == [kind |-> "Method", ident |-> n, inputs |-> ins]
TraitConst == [kind |-> "Const", ident |-> "K"]
TraitType == [kind |-> "Type", ident |-> "A"]

ItemTrait(n, its) == [kind |-> "trait", ident |-> n, items |-> its]

\* Signatures used where several items are combined.
FewInputs ==
    {<<>>,
     <<Typed(PatIdent("a"), TypePath(<<"Binary">>)), Typed(PatIdent("b"), TypePath(<<"Integer">>))>>,
     <<Typed(PatIdent("a"), TypePath(<<"Address">>)), Typed(PatIdent("b"), TypePath(<<"Payment">>))>>}

FewItems == {TraitMethod(n, ins) : n \in MethodNames, ins \in FewInputs} \cup {TraitConst, TraitType}

\* Trait declarations: one method over every parameter list, and every item
\* list over the few signatures.
Traits ==
    {ItemTrait("T", <<TraitMethod("f", ins)>>) : ins \in SeqsUpTo(Params, MaxParams)}
    \cup {ItemTrait(n, its) : n \in TraitNames, its \in SeqsUpTo(FewItems, MaxItems)}

\* Statements of an action body, as far as the wrapper's execution can tell
\* them apart: a side effect, an explicit `return v;`, an abnormal termination.
StmtEffect == [op |-> "effect"]
StmtReturn(v) == [op |-> "return", val |-> v]
StmtTrap == [op |-> "trap"]
Stmts == {StmtEffect, StmtTrap} \cup {StmtReturn(v) : v \in RetVals}

ItemFn(n, ins, ret, blk) == [kind |-> "fn", ident |-> n, inputs |-> ins, ret |-> ret, block |-> blk]

FnInputs ==
    {<<>>,
     <<Typed(PatIdent("a"), TypePath(<<"Boolean">>))>>,
     <<Typed(PatIdent("b"), TypePath(<<"Address">>)), Typed(PatWild, TypeReference)>>}

Fns ==
    {ItemFn(n, ins, ret, blk) :
        n \in MethodNames, ins \in FnInputs, ret \in {"()", "i32"}, blk \in SeqsUpTo(Stmts, MaxStmts)}

\* Token streams that are neither a trait nor a function definition.
Malformed == {[kind |-> "struct", ident |-> "T"], [kind |-> "garbage"]}

Inputs == Traits \cup Fns \cup Malformed

-----------------------------------------------------------------------------
(* Generated syntax trees.                                                  *)

ExprVar(n) == [kind |-> "var", ident |-> n]
ExprField(n, k) == [kind |-> "field", ident |-> n, index |-> k]
ExprStr(s) == [kind |-> "str", text |-> s]

\* `name: ty` in a generated signature.
NativeParam(n, t) == [name |-> n, ty |-> t]
\* `f(es);` when semi, the tail expression `f(es)` otherwise.
CallStmt(f, es, semi) == [call |-> f, args |-> es, semi |-> semi]

None == [kind |-> "none"]
Err == [kind |-> "err"]

-----------------------------------------------------------------------------
(* interface(), generator.rs:4-96.                                          *)

\* syn::parse2::<syn::ItemTrait>(input) succeeds
ParsesAsItemTrait(inp) == inp.kind = "trait"

\* Whether the match at generator.rs:18-25 reaches one of its five arms.
Recognised(arg) ==
    /\ arg.kind = "Typed"
    /\ arg.pat.kind = "Ident"
    /\ arg.ty.kind = "Path"
    /\ arg.ty.segments[1] \in KindNames

NativeOf(name) ==
    CASE name = "Integer" -> "i64" [] name = "Boolean" -> "bool"
      [] name = "Binary" -> "&[u8]" [] name = "String" -> "&str"
      [] OTHER -> "(&[u8], i64)"

CallOf(name) ==
    CASE name = "Integer" -> "call_arg_int" [] name = "Boolean" -> "call_arg_bool"
      [] name = "Binary" -> "call_arg_binary" [] name = "String" -> "call_arg_string"
      [] OTHER -> "call_payment"

CallArgsOf(name, arg_name) ==
    IF name = "Payment" THEN <<ExprField(arg_name, 0), ExprField(arg_name, 1)>>
    ELSE <<ExprVar(arg_name)>>

\* Variant of PushArg: the marshalling statement is put in front of the list.
PushArg_CallFirst(arg, st) ==
    IF Recognised(arg)
    THEN LET arg_name == arg.pat.ident
             name == arg.ty.segments[1]
         IN  [args |-> Append(st.args, NativeParam(arg_name, NativeOf(name))),
              call_args |-> <<CallStmt(CallOf(name), CallArgsOf(name, arg_name), TRUE)>>
                            \o st.call_args]
    ELSE st

\* Variant of PushArg: call_payment gets the amount before the asset id.
PushArg_PaymentSwapped(arg, st) ==
    IF Recognised(arg)
    THEN LET arg_name == arg.pat.ident
             name == arg.ty.segments[1]
             es == IF name = "Payment"
                   THEN <<ExprField(arg_name, 1), ExprField(arg_name, 0)>>
                   ELSE <<ExprVar(arg_name)>>
         IN  [args |-> Append(st.args, NativeParam(arg_name, NativeOf(name))),
              call_args |-> Append(st.call_args, CallStmt(CallOf(name), es, TRUE))]
    ELSE st

\* Variant of PushArg: an unrecognised path type is encoded as Binary.
PushArg_UnknownAsBinary(arg, st) ==
    IF arg.kind = "Typed" /\ arg.pat.kind = "Ident" /\ arg.ty.kind = "Path"
    THEN LET arg_name == arg.pat.ident
             name == IF arg.ty.segments[1] \in KindNames THEN arg.ty.segments[1] ELSE "Binary"
         IN  [args |-> Append(st.args, NativeParam(arg_name, NativeOf(name))),
              call_args |-> Append(st.call_args,
                                   CallStmt(CallOf(name), CallArgsOf(name, arg_name), TRUE))]
    ELSE st

\* Variant of PushArg: a Payment is marshalled by one call per component.
PushArg_PaymentTwoCalls(arg, st) ==
    IF Recognised(arg)
    THEN LET arg_name == arg.pat.ident
             name == arg.ty.segments[1]
             cs == IF name = "Payment"
                   THEN <<CallStmt("call_arg_binary", <<ExprField(arg_name, 0)>>, TRUE),
                          CallStmt("call_arg_int", <<ExprField(arg_name, 1)>>, TRUE)>>
                   ELSE <<CallStmt(CallOf(name), <<ExprVar(arg_name)>>, TRUE)>>
         IN  [args |-> Append(st.args, NativeParam(arg_name, NativeOf(name))),
              call_args |-> st.call_args \o cs]
    ELSE st

\* One iteration of the loop at generator.rs:17-76 applied to the two lists.
PushArg(arg, st) ==
    IF arg.kind = "Typed"
    THEN IF arg.pat.kind = "Ident"
         THEN LET arg_name == arg.pat.ident IN
              IF arg.ty.kind = "Path"
              THEN LET name == arg.ty.segments[1] IN
                   CASE name = "Integer" ->
                          [args |-> Append(st.args, NativeParam(arg_name, "i64")),
                           call_args |-> Append(st.call_args,
                               CallStmt("call_arg_int", <<ExprVar(arg_name)>>, TRUE))]
                     [] name = "Boolean" ->
                          [args |-> Append(st.args, NativeParam(arg_name, "bool")),
                           call_args |-> Append(st.call_args,
                               CallStmt("call_arg_bool", <<ExprVar(arg_name)>>, TRUE))]
                     [] name = "Binary" ->
                          [args |-> Append(st.args, NativeParam(arg_name, "&[u8]")),
                           call_args |-> Append(st.call_args,
                               CallStmt("call_arg_binary", <<ExprVar(arg_name)>>, TRUE))]
                     [] name = "String" ->
                          [args |-> Append(st.args, NativeParam(arg_name, "&str")),
                           call_args |-> Append(st.call_args,
                               CallStmt("call_arg_string", <<ExprVar(arg_name)>>, TRUE))]
                     [] name = "Payment" ->
                          [args |-> Append(st.args, NativeParam(arg_name, "(&[u8], i64)")),
                           call_args |-> Append(st.call_args,
                               CallStmt("call_payment",
                                        <<ExprField(arg_name, 0), ExprField(arg_name, 1)>>, TRUE))]
                     [] OTHER -> st
              ELSE st
         ELSE st
    ELSE st

\* The loop at generator.rs:17-76 over a whole parameter list.
RECURSIVE PushArgs(_, _)
PushArgs(inputs, st) ==
    IF inputs = <<>> THEN st ELSE PushArgs(Tail(inputs), PushArg(Head(inputs), st))

\* Variant of FuncQuote: the dispatch call is emitted before the marshalling
\* statements and its value is discarded.
FuncQuote_DispatchFirst(func_name, func_name_str, as, cs) ==
    [name |-> func_name,
     params |-> <<NativeParam("contract_id", "&[u8]")>> \o as,
     ret |-> "i32",
     unsafe |-> TRUE,
     body |-> <<CallStmt("call_contract",
                         <<ExprVar("contract_id"), ExprStr(func_name_str)>>, TRUE)>> \o cs]

\* The quote! at generator.rs:78-85.
FuncQuote(func_name, func_name_str, as, cs) ==
    [name |-> func_name,
     params |-> <<NativeParam("contract_id", "&[u8]")>> \o as,
     ret |-> "i32",
     unsafe |-> TRUE,
     body |-> cs \o <<CallStmt("call_contract",
                               <<ExprVar("contract_id"), ExprStr(func_name_str)>>, FALSE)>>]

\* method.sig.ident.to_string()
IdentToString(id) == id

\* The body of `if let syn::TraitItem::Method(method) = item`, generator.rs:12-85.
GenMethod(method) ==
    LET st == PushArgs(method.inputs, [args |-> <<>>, call_args |-> <<>>])
    IN  FuncQuote(method.ident, IdentToString(method.ident), st.args, st.call_args)

\* Variant of GenItems: a method whose name was already generated is skipped.
RECURSIVE GenItems_Dedup(_)
GenItems_Dedup(items) ==
    IF items = <<>> THEN <<>>
    ELSE LET last == items[Len(items)]
             front == SubSeq(items, 1, Len(items) - 1)
             dup == \E k \in 1..Len(front) :
                       front[k].kind = "Method" /\ front[k].ident = last.ident
         IN  IF last.kind = "Method" /\ ~dup
             THEN GenItems_Dedup(front) \o <<GenMethod(last)>>
             ELSE GenItems_Dedup(front)

\* The loop at generator.rs:10-87.
RECURSIVE GenItems(_)
GenItems(items) ==
    IF items = <<>> THEN <<>>
    ELSE IF Head(items).kind = "Method"
         THEN <<GenMethod(Head(items))>> \o GenItems(Tail(items))
         ELSE GenItems(Tail(items))

\* The quote! at generator.rs:89-95.
ModQuote(mod_name, funcs) ==
    [kind |-> "mod", ident |-> mod_name, uses |-> <<"we_contract_sdk::*">>, funcs |-> funcs]

\* Variant of interface: a parameter outside the five arms is a syntax error.
interface_RejectsUnsupported(inp) ==
    IF ~ParsesAsItemTrait(inp) THEN Err
    ELSE IF \E k \in 1..Len(inp.items) :
               /\ inp.items[k].kind = "Method"
               /\ \E q \in 1..Len(inp.items[k].inputs) : ~Recognised(inp.items[k].inputs[q])
         THEN Err
         ELSE ModQuote(inp.ident, GenItems(inp.items))

\* Variant of interface: the dispatch key is qualified by the trait's name.
interface_QualifiedDispatch(inp) ==
    IF ~ParsesAsItemTrait(inp) THEN Err
    ELSE LET funcs == GenItems(inp.items)
             qualify(fn) ==
                 [fn EXCEPT !.body[Len(fn.body)] =
                     CallStmt("call_contract",
                              <<ExprVar("contract_id"), ExprStr(<<inp.ident, fn.name>>)>>, FALSE)]
         IN  ModQuote(inp.ident, [k \in 1..Len(funcs) |-> qualify(funcs[k])])

interface(inp) ==
    IF ~ParsesAsItemTrait(inp) THEN Err
    ELSE ModQuote(inp.ident, GenItems(inp.items))

-----------------------------------------------------------------------------
(* action(), generator.rs:98-115.                                           *)

\* syn::parse2::<syn::ItemFn>(input) succeeds
ParsesAsItemFn(inp) == inp.kind = "fn"

\* Variant of action: the declared return type is kept.
action_KeepsReturnType(inp) ==
    IF ~ParsesAsItemFn(inp) THEN Err
    ELSE [kind |-> "entry",
          attrs |-> <<"no_mangle">>,
          abi |-> "C",
          name |-> inp.ident,
          params |-> inp.inputs,
          ret |-> inp.ret,
          unsafe_block |-> inp.block,
          tail |-> 0]

action(inp) ==
    IF ~ParsesAsItemFn(inp) THEN Err
    ELSE [kind |-> "entry",
          attrs |-> <<"no_mangle">>,
          abi |-> "C",
          name |-> inp.ident,
          params |-> inp.inputs,
          ret |-> "i32",
          unsafe_block |-> inp.block,
          tail |-> 0]

\* Execution of a block: the number of statements that ran and how it ended
\* ("end": fell off the end; "return": `return v;`; "trap": aborted).
RECURSIVE ExecBlock(_)
ExecBlock(block) ==
    IF block = <<>> THEN [how |-> "end", val |-> 0, ran |-> 0]
    ELSE LET s == Head(block) IN
         IF s.op = "return" THEN [how |-> "return", val |-> s.val, ran |-> 1]
         ELSE IF s.op = "trap" THEN [how |-> "trap", val |-> 0, ran |-> 1]
         ELSE LET rest == ExecBlock(Tail(block))
              IN  [rest EXCEPT !.ran = rest.ran + 1]

\* One call of the generated entry point (generator.rs:107-113): the unsafe
\* block runs, then the tail expression is the function's value.
CallEntry(entry) ==
    LET b == ExecBlock(entry.unsafe_block) IN
    CASE b.how = "trap" -> [kind |-> "trapped", bodyRuns |-> 1, ran |-> b.ran]
      [] b.how = "return" -> [kind |-> "returned", status |-> b.val, bodyRuns |-> 1, ran |-> b.ran]
      [] OTHER -> [kind |-> "returned", status |-> entry.tail, bodyRuns |-> 1, ran |-> b.ran]

-----------------------------------------------------------------------------
(* Specification Spec: one macro invocation on a chosen input, then, for a *)
(* generated entry point, one call of it.                                  *)

Init ==
    /\ input \in Inputs
    /\ macro = "none"
    /\ output = None
    /\ run = None
    /\ saved = None
    /\ pc = "idle"
    /\ i = 0
    /\ j = 0
    /\ args = <<>>
    /\ call_args = <<>>
    /\ mod_func = <<>>

Interface ==
    /\ macro = "none"
    /\ macro' = "interface"
    /\ output' = interface(input)
    /\ UNCHANGED <<input, run, saved, pc, i, j, args, call_args, mod_func>>

Action ==
    /\ macro = "none"
    /\ macro' = "action"
    /\ output' = action(input)
    /\ UNCHANGED <<input, run, saved, pc, i, j, args, call_args, mod_func>>

Call ==
    /\ output.kind = "entry"
    /\ run = None
    /\ run' = CallEntry(output)
    /\ UNCHANGED <<input, macro, output, saved, pc, i, j, args, call_args, mod_func>>

Next == Interface \/ Action \/ Call

Spec == Init /\ [][Next]_vars

-----------------------------------------------------------------------------
(* Specification SpecSeq: a sequence of macro invocations.  `saved` keeps   *)
(* one earlier invocation; `gap` records that other invocations ran between *)
(* it and the current one.                                                  *)

SeqItems ==
    {TraitMethod("f", <<Typed(PatIdent("a"), TypePath(<<"Payment">>))>>),
     TraitMethod("g", <<Typed(PatIdent("b"), TypePath(<<"Address">>)),
                        Typed(PatIdent("a"), TypePath(<<"String">>))>>)}

SeqInputs ==
    {ItemTrait(n, its) : n \in TraitNames, its \in SeqsUpTo(SeqItems, MaxSeqItems)}
    \cup {ItemFn("f", <<>>, "()", <<StmtEffect>>), [kind |-> "garbage"]}

InitSeq ==
    /\ input = None
    /\ macro = "none"
    /\ output = None
    /\ run = None
    /\ saved = None
    /\ pc = "idle"
    /\ i = 0
    /\ j = 0
    /\ args = <<>>
    /\ call_args = <<>>
    /\ mod_func = <<>>

Invoke ==
    \E inp \in SeqInputs, m \in {"interface", "action"}, keep \in BOOLEAN :
        /\ input' = inp
        /\ macro' = m
        /\ output' = IF m = "interface" THEN interface(inp) ELSE action(inp)
        /\ saved' = IF macro = "none" THEN None
                    ELSE IF keep /\ saved # None THEN [saved EXCEPT !.gap = TRUE]
                    ELSE [kind |-> "invocation", input |-> input, macro |-> macro,
                          output |-> output, gap |-> FALSE]
        /\ UNCHANGED <<run, pc, i, j, args, call_args, mod_func>>

NextSeq == Invoke

SpecSeq == InitSeq /\ [][NextSeq]_vars

-----------------------------------------------------------------------------
(* Specification SpecLoop: interface() step by step, one action per loop    *)
(* iteration (generator.rs:10 and :17).                                     *)

InitLoop ==
    /\ input \in Traits \cup Malformed
    /\ macro = "interface"
    /\ output = None
    /\ run = None
    /\ saved = None
    /\ pc = "parse"
    /\ i = 0
    /\ j = 0
    /\ args = <<>>
    /\ call_args = <<>>
    /\ mod_func = <<>>

\* generator.rs:5-8
LoopParse ==
    /\ pc = "parse"
    /\ IF ParsesAsItemTrait(input)
       THEN pc' = "items" /\ output' = output
       ELSE pc' = "done" /\ output' = Err
    /\ UNCHANGED <<input, macro, run, saved, i, j, args, call_args, mod_func>>

\* generator.rs:10-16: the next item; a method starts the parameter loop
LoopItem ==
    /\ pc = "items"
    /\ i < Len(input.items)
    /\ IF input.items[i + 1].kind = "Method"
       THEN pc' = "args" /\ i' = i
       ELSE pc' = "items" /\ i' = i + 1
    /\ j' = 0
    /\ args' = <<>>
    /\ call_args' = <<>>
    /\ UNCHANGED <<input, macro, output, run, saved, mod_func>>

\* generator.rs:17-76: one parameter
LoopArg ==
    /\ pc = "args"
    /\ j < Len(input.items[i + 1].inputs)
    /\ LET st == PushArg(input.items[i + 1].inputs[j + 1],
                         [args |-> args, call_args |-> call_args])
       IN  args' = st.args /\ call_args' = st.call_args
    /\ j' = j + 1
    /\ UNCHANGED <<input, macro, output, run, saved, pc, i, mod_func>>

\* generator.rs:78-85
LoopPush ==
    /\ pc = "args"
    /\ j = Len(input.items[i + 1].inputs)
    /\ mod_func' = Append(mod_func,
                          FuncQuote(input.items[i + 1].ident,
                                    IdentToString(input.items[i + 1].ident), args, call_args))
    /\ i' = i + 1
    /\ pc' = "items"
    /\ UNCHANGED <<input, macro, output, run, saved, j, args, call_args>>

\* generator.rs:89-95
LoopFinish ==
    /\ pc = "items"
    /\ i = Len(input.items)
    /\ output' = ModQuote(input.ident, mod_func)
    /\ pc' = "done"
    /\ UNCHANGED <<input, macro, run, saved, i, j, args, call_args, mod_func>>

NextLoop == LoopParse \/ LoopItem \/ LoopArg \/ LoopPush \/ LoopFinish

SpecLoop == InitLoop /\ [][NextLoop]_vars

\* The stepwise loop ends with what interface() returns.
LoopAgreesWithInterface == pc = "done" => output = interface(input)

-----------------------------------------------------------------------------
(* Properties.                                                              *)

IsMethod(item) == item.kind = "Method"
Methods(items) == SelectSeq(items, IsMethod)

\* interface() ran on a trait declaration and returned a module.
Generated == macro = "interface" /\ input.kind = "trait" /\ output.kind = "mod"

ContractIdParam == [name |-> "contract_id", ty |-> "&[u8]"]
MarshalCalls == {"call_arg_int", "call_arg_bool", "call_arg_binary", "call_arg_string", "call_payment"}

\* The encoding table of the design: kind -> native parameter form, primitive.
TypeTable ==
    [Integer |-> [native |-> "i64", call |-> "call_arg_int"],
     Boolean |-> [native |-> "bool", call |-> "call_arg_bool"],
     Binary |-> [native |-> "&[u8]", call |-> "call_arg_binary"],
     String |-> [native |-> "&str", call |-> "call_arg_string"],
     Payment |-> [native |-> "(&[u8], i64)", call |-> "call_payment"]]

\* A typed parameter whose type is no path or names none of the five kinds.
Unrecognised(arg) ==
    /\ arg.kind = "Typed"
    /\ \/ arg.ty.kind # "Path"
       \/ arg.ty.segments[1] \notin KindNames

AllRecognised(inputs) == \A q \in 1..Len(inputs) : Recognised(inputs[q])

C2_EncodingTable ==
    Generated =>
        /\ Len(output.funcs) = Len(Methods(input.items))
        /\ \A k \in 1..Len(Methods(input.items)) :
              LET rec == SelectSeq(Methods(input.items)[k].inputs, Recognised)
                  fn == output.funcs[k]
              IN  /\ Len(fn.params) = Len(rec) + 1
                  /\ Len(fn.body) = Len(rec) + 1
                  /\ \A q \in 1..Len(rec) :
                        LET p == rec[q].pat.ident
                            kind == rec[q].ty.segments[1]
                        IN  /\ fn.params[q + 1] = [name |-> p, ty |-> TypeTable[kind].native]
                            /\ fn.body[q] =
                                 [call |-> TypeTable[kind].call,
                                  args |-> IF kind = "Payment"
                                           THEN <<ExprField(p, 0), ExprField(p, 1)>>
                                           ELSE <<ExprVar(p)>>,
                                  semi |-> TRUE]

C2_Witness ==
    /\ Generated
    /\ \E k \in 1..Len(output.funcs) : \E q \in 1..Len(output.funcs[k].body) :
          /\ output.funcs[k].body[q].call = "call_payment"
          /\ Len(output.funcs[k].body[q].args) = 2

\* C3: every generated function holds exactly one call_contract call, after
\* all marshalling statements, passing contract_id and the method's name as a
\* string literal, and that call's i32 value is the function's value.
C3_OneDispatchLast ==
    Generated =>
        /\ Len(output.funcs) = Len(Methods(input.items))
        /\ \A k \in 1..Len(output.funcs) :
              LET fn == output.funcs[k]
                  last == Len(fn.body)
              IN  /\ last >= 1
                  /\ Cardinality({q \in 1..last : fn.body[q].call = "call_contract"}) = 1
                  /\ fn.body[last].call = "call_contract"
                  /\ ~fn.body[last].semi
                  /\ fn.body[last].args =
                        <<ExprVar("contract_id"), ExprStr(Methods(input.items)[k].ident)>>
                  /\ \A q \in 1..(last - 1) : fn.body[q].call \in MarshalCalls /\ fn.body[q].semi
                  /\ fn.params[1] = ContractIdParam
                  /\ fn.ret = "i32"

C3_Witness ==
    /\ Generated
    /\ \E k \in 1..Len(output.funcs) :
          /\ Len(output.funcs[k].body) >= 3
          /\ output.funcs[k].body[Len(output.funcs[k].body)].call = "call_contract"

\* C4: a parameter of an unrecognised type adds no native parameter and no
\* marshalling statement, interface() still succeeds, and the recognised
\* parameters of the method are generated as without it, in their order.
C4_UnrecognisedDropped ==
    (macro = "interface" /\ input.kind = "trait") =>
        /\ output.kind = "mod"
        /\ Len(output.funcs) = Len(Methods(input.items))
        /\ \A k \in 1..Len(Methods(input.items)) :
              LET m == Methods(input.items)[k]
                  fn == output.funcs[k]
                  rec == SelectSeq(m.inputs, Recognised)
              IN  (\E q \in 1..Len(m.inputs) : Unrecognised(m.inputs[q])) =>
                    /\ Len(fn.params) = Len(rec) + 1
                    /\ Len(fn.body) = Len(rec) + 1
                    /\ \A q \in 1..Len(rec) :
                          /\ fn.params[q + 1].name = rec[q].pat.ident
                          /\ fn.body[q].args[1].ident = rec[q].pat.ident
                    /\ fn = GenMethod([m EXCEPT !.inputs = rec])

C4_Witness ==
    /\ Generated
    /\ \E k \in 1..Len(input.items) :
          /\ IsMethod(input.items[k])
          /\ Len(input.items[k].inputs) = 2
          /\ Unrecognised(input.items[k].inputs[1])
          /\ Recognised(input.items[k].inputs[2])
          /\ \E n \in 1..Len(output.funcs) : Len(output.funcs[n].params) = 2

\* C5: every call of the generated entry point that returns has run the body
\* once and returns status 0, whatever the body computes or returns.
C5_AlwaysSuccess ==
    (macro = "action" /\ run.kind = "returned") => (run.bodyRuns = 1 /\ run.status = 0)

\* C6: action() yields one exported function with the input's name and
\* parameter list, return type i32 whatever the declared return type, and
\* the unmodified block followed by 0 as its body.
C6_SignatureKept ==
    (macro = "action" /\ input.kind = "fn") =>
        /\ output.kind = "entry"
        /\ output.attrs = <<"no_mangle">>
        /\ output.abi = "C"
        /\ output.name = input.ident
        /\ output.params = input.inputs
        /\ output.ret = "i32"
        /\ output.unsafe_block = input.block
        /\ output.tail = 0

C6_Witness ==
    /\ macro = "action"
    /\ input.kind = "fn"
    /\ input.ret = "()"
    /\ Len(input.inputs) = 2
    /\ Len(input.block) = 2
    /\ output.kind = "entry"

\* C7: interface() (action()) returns an error exactly when the input is no
\* trait declaration (no function definition); every well-formed declaration
\* yields a generated artifact.
C7_ErrorIffMalformed ==
    /\ macro = "interface" =>
          /\ (output = Err) <=> (input.kind # "trait")
          /\ input.kind = "trait" => output.kind = "mod"
    /\ macro = "action" =>
          /\ (output = Err) <=> (input.kind # "fn")
          /\ input.kind = "fn" => output.kind = "entry"

C7_Witness ==
    \/ macro = "interface" /\ input.kind = "fn" /\ output = Err
    \/ macro = "action" /\ input.kind = "trait" /\ output = Err

\* C8: the generated functions depend only on the method signatures: two
\* invocations on traits with the same items yield the same functions inside
\* a namespace named after each trait, and two invocations on the same input
\* yield the same output, whatever ran between them.
C8_NamespaceIndependent ==
    (saved # None /\ saved.macro = "interface" /\ macro = "interface"
        /\ saved.input.kind = "trait" /\ input.kind = "trait") =>
        /\ saved.input.items = input.items =>
              /\ saved.output.funcs = output.funcs
              /\ saved.output.uses = output.uses
              /\ saved.output.ident = saved.input.ident
              /\ output.ident = input.ident
        /\ saved.input = input => saved.output = output

C8_Witness ==
    /\ saved # None
    /\ saved.gap
    /\ saved.macro = "interface"
    /\ macro = "interface"
    /\ saved.input.kind = "trait"
    /\ input.kind = "trait"
    /\ saved.input.items = input.items
    /\ saved.input.ident # input.ident
    /\ Len(output.funcs) = 2

\* C9: interface() emits one function per method of the declaration, in
\* declaration order, in a namespace named after the declaration; methods of
\* the same name each yield a function and other items yield none.
C9_OneFunctionPerMethod ==
    Generated =>
        /\ output.ident = input.ident
        /\ Len(output.funcs) = Len(Methods(input.items))
        /\ \A k \in 1..Len(Methods(input.items)) :
              LET m == Methods(input.items)[k]
                  fn == output.funcs[k]
              IN  /\ fn.name = m.ident
                  /\ fn.body[Len(fn.body)].args[2] = ExprStr(m.ident)
                  /\ Len(fn.params) =
                        1 + Cardinality({q \in 1..Len(m.inputs) : Recognised(m.inputs[q])})

C9_Witness ==
    /\ Generated
    /\ Len(input.items) = 3
    /\ IsMethod(input.items[1])
    /\ ~IsMethod(input.items[2])
    /\ IsMethod(input.items[3])
    /\ input.items[1].ident = input.items[3].ident
    /\ input.items[1].inputs # input.items[3].inputs
    /\ Len(output.funcs) = 2

\* C10: in the parameter loop, after any prefix of the parameters, args and
\* call_args have the same length and the q-th statement names the q-th
\* native parameter; each parameter adds one element to both lists or to
\* neither.
C10_ListsInStep ==
    /\ [](pc = "args" =>
            /\ Len(args) = Len(call_args)
            /\ \A q \in 1..Len(args) : call_args[q].args[1].ident = args[q].name)
    /\ [][(pc = "args" /\ pc' = "args") =>
            \E d \in {0, 1} :
                /\ Len(args') = Len(args) + d
                /\ Len(call_args') = Len(call_args) + d]_vars

C10_Witness ==
    /\ pc = "args"
    /\ j = 2
    /\ input.items[i + 1].inputs[1] = Receiver
    /\ Recognised(input.items[i + 1].inputs[2])
    /\ Len(args) = 1
    /\ Len(call_args) = 1

====
